---- MODULE Spec2Model ----
(***************************************************************************)
(* Session orchestration and real-time relay layer of the agent manager    *)
(* backend (src/backend/app): the persisted agent_sessions rows, the       *)
(* worker processes of the sandbox, the ConnectionManager registry, the    *)
(* HTTP handlers, the websocket frame handler and the health monitor, and   *)
(* the persisted chat_messages rows.                                       *)
(*                                                                         *)
(* An optional value (a nullable DateTime column) is a set with at most    *)
(* one element: {} is None, {t} is the timestamp t.                        *)
(***************************************************************************)
EXTENDS Integers, Sequences, FiniteSets, TLC

\* ------------------------------------------------------------- bounds
MaxChannels == 2
MaxWorkers == 2
MaxMessages == 2
MaxLogTasks == 2

\* -------------------------------------------------- program constants
HeartbeatTimeout == 45

\* The session ids of the model (the values the serial key takes) and the
\* websockets that may connect.
SessionIds == {1}
Channels == 1..MaxChannels

\* The agent directories that hold a main.py, and what a client may ask for.
KnownAgents == {"echo", "calculator", "greeter", "ollama", "ollama_generate"}
AgentRequests == {"echo", "nosuch"}

\* The content a client may put in a message frame.
Contents == {"hi"}

\* The instants at which the model looks at the wall clock: the start, the
\* staleness threshold exactly, and one second past it.
Instants == {0, HeartbeatTimeout, HeartbeatTimeout + 1}

VARIABLES
    agent_sessions,      \* the agent_sessions table: id -> row
    nextId,              \* the next value of the table's serial primary key
    workers,             \* id -> number of live processes matching agent-<id>-
    active_connections,  \* ConnectionManager.active_connections: id -> set
    handlers,            \* websocket -> the session id its handler serves
    now,                 \* datetime.now(), in seconds
    creating,            \* the id create_session has inserted and not yet spawned
    response,            \* what the last step returned to its caller
    sent,                \* the frames the last step delivered, in order
    readWrites,          \* id -> status changes made by list_sessions and
                         \* get_session since the last step of another kind
    chat_messages,       \* the chat_messages table, in insertion order
    nextMessageId,       \* the next value of that table's serial primary key
    inflight,            \* websocket -> the broadcasts its handler is in the
                         \* middle of, suspended in a send
    received,            \* websocket -> the frames those broadcasts have
                         \* delivered to it, in order
    base_agent,          \* id -> the worker process of the session: where
                         \* BaseAgent.run is and its message_queue
    log_tasks,           \* id -> number of stream_container_logs tasks
    readline,            \* the ids of the log tasks that hold the thread of
                         \* the event loop in stdout.readline (one at most)
    sweep                \* the pass of monitor_session_health that is
                         \* suspended in a broadcast: its sessions to come

vars == <<agent_sessions, nextId, workers, active_connections, handlers, now,
          creating, response, sent, readWrites, chat_messages, nextMessageId,
          inflight, received, base_agent, log_tasks, readline,
          sweep>>

\* ------------------------------------------------------------ helpers
\* What a step returned: the handler, the session id of the request, the
\* HTTP status code and the list the JSON body carries (empty when none).
NoResponse == [op |-> "none", id |-> 0, code |-> 0, body |-> << >>]

Resp(op, id, code) == [op |-> op, id |-> id, code |-> code, body |-> << >>]

RespBody(op, id, code, body) ==
    [op |-> op, id |-> id, code |-> code, body |-> body]

Exists(id) == id \in DOMAIN agent_sessions

NoReadWrites == [i \in SessionIds |-> 0]

\* The count of read-path status changes after a read step from table old to
\* table new; it stops counting at two.
CountReadWrites(old, new) ==
    [i \in SessionIds |->
        IF i \in DOMAIN old /\ i \in DOMAIN new /\ old[i].status # new[i].status
        THEN IF readWrites[i] = 0 THEN 1 ELSE 2
        ELSE readWrites[i]]

\* AgentSession(agent_name=...): status takes the column default.
AgentSession(agent) ==
    [agent_name |-> agent, status |-> "running",
     stopped_at |-> {}, last_heartbeat |-> {}]

\* The table with row id replaced (or inserted).
Put(tbl, id, row) ==
    [i \in DOMAIN tbl \cup {id} |-> IF i = id THEN row ELSE tbl[i]]

\* The table without row id.
Drop(tbl, id) == [i \in DOMAIN tbl \ {id} |-> tbl[i]]

\* (datetime.now() - last_heartbeat).total_seconds() > 45, None being falsy.
Stale(row, t) == \E hb \in row.last_heartbeat : t - hb > HeartbeatTimeout

\* VenvManager.get_container_status: "running" when ps finds a process of the
\* session, "exited" when it finds none, None ({}) when the query raised.
get_container_status(id, raised) ==
    IF raised THEN {}
    ELSE IF workers[id] > 0 THEN {"running"} ELSE {"exited"}

\* ----------------------------------------------------- ConnectionManager
Conns(ac, id) == IF id \in DOMAIN ac THEN ac[id] ELSE {}

\* Fault variant: a disconnect that keeps the entry of a session whose last
\* connection has gone.
disconnect_keeping_entry(ac, ws, id) ==
    IF id \notin DOMAIN ac THEN ac
    ELSE [ac EXCEPT ![id] = @ \ {ws}]

\* ConnectionManager.disconnect: discard, and delete the entry when empty.
disconnect(ac, ws, id) ==
    IF id \notin DOMAIN ac THEN ac
    ELSE IF ac[id] \ {ws} = {} THEN [i \in DOMAIN ac \ {id} |-> ac[i]]
    ELSE [ac EXCEPT ![id] = @ \ {ws}]

RECURSIVE disconnect_all(_, _, _)
disconnect_all(ac, wss, id) ==
    IF wss = {} THEN ac
    ELSE LET ws == CHOOSE w \in wss : TRUE
         IN disconnect_all(disconnect(ac, ws, id), wss \ {ws}, id)

\* ConnectionManager.send_message: the registry after the frame was sent to
\* every connection of the session, those in bad having failed.
send_message_ac(ac, id, bad) == disconnect_all(ac, Conns(ac, id) \cap bad, id)

\* ConnectionManager.send_message: what was delivered, appended to log.
send_message_log(log, ac, id, frame, bad) ==
    IF id \notin DOMAIN ac THEN log
    ELSE Append(log, [frame |-> frame, to |-> ac[id] \ bad])

\* Fault variant: a partial update that goes out as a frame of type message.
MessageStreamFrameAsMessage(c, t) ==
    [type |-> "message", status |-> "", role |-> "agent",
     content |-> c, timestamp |-> {t}, is_typing |-> {}]

\* The server-to-client frames of this model; an absent key is "" or {}.
\* {"type": "message_stream", "role": "agent", "content": c, "timestamp": t}:
MessageStreamFrame(c, t) ==
    [type |-> "message_stream", status |-> "", role |-> "agent",
     content |-> c, timestamp |-> {t}, is_typing |-> {}]
\* {"type": "log", "role": "log", "content": c, "timestamp": t}:
LogFrame(c, t) ==
    [type |-> "log", status |-> "", role |-> "log", content |-> c,
     timestamp |-> {t}, is_typing |-> {}]
\* {"type": "typing", "is_typing": b}:
TypingFrame(b) ==
    [type |-> "typing", status |-> "", role |-> "", content |-> "",
     timestamp |-> {}, is_typing |-> {b}]
\* {"type": "status", "status": s} and {"type": "heartbeat", "timestamp": t}:
StatusFrame(s) ==
    [type |-> "status", status |-> s, role |-> "", content |-> "",
     timestamp |-> {}, is_typing |-> {}]
HeartbeatFrame(t) ==
    [type |-> "heartbeat", status |-> "", role |-> "", content |-> "",
     timestamp |-> {t}, is_typing |-> {}]
\* {"type": "user_message", "content": c}:
UserMessageFrame(c) ==
    [type |-> "user_message", status |-> "", role |-> "", content |-> c,
     timestamp |-> {}, is_typing |-> {}]
\* Fault variant: a display frame without the timestamp of the message.
MessageFrameUntimed(r, c, t) ==
    [type |-> "message", status |-> "", role |-> r, content |-> c,
     timestamp |-> {}, is_typing |-> {}]

\* {"type": "message", "role": r, "content": c, "timestamp": t}:
MessageFrame(r, c, t) ==
    [type |-> "message", status |-> "", role |-> r, content |-> c,
     timestamp |-> {t}, is_typing |-> {}]

\* BaseAgent.__init__: the worker has not connected and its queue is empty.
NotStarted == [pc |-> "connect", message_queue |-> << >>]

\* asyncio.create_task(stream_container_logs(session.id, session.id)): one
\* more task; the task object is not kept.
create_task(tasks, id) == [tasks EXCEPT ![id] = @ + 1]

\* ---------------------------------------------------------------- Init
Init ==
    /\ agent_sessions = << >>
    /\ nextId = 1
    /\ workers = [i \in SessionIds |-> 0]
    /\ active_connections = << >>
    /\ handlers = << >>
    /\ now = 0
    /\ creating = {}
    /\ response = NoResponse
    /\ sent = << >>
    /\ readWrites = NoReadWrites
    /\ chat_messages = << >>
    /\ nextMessageId = 1
    /\ inflight = << >>
    /\ received = [ws \in Channels |-> << >>]
    /\ base_agent = [i \in SessionIds |-> NotStarted]
    /\ log_tasks = [i \in SessionIds |-> 0]
    /\ readline = {}
    /\ sweep = << >>

Idle == creating = {}

\* -------------------------------------------------------- HTTP handlers
\* Fault variant: a create_session that inserts the row without looking at
\* the agents directory.
create_session_commit_unvalidated(agent) ==
    /\ Idle
    /\ nextId \in SessionIds
    /\ agent_sessions' = Put(agent_sessions, nextId, AgentSession(agent))
    /\ nextId' = nextId + 1
    /\ creating' = {nextId}
    /\ response' = NoResponse
    /\ sent' = << >>
    /\ readWrites' = NoReadWrites
    /\ UNCHANGED <<base_agent, log_tasks, readline, sweep>>
    /\ UNCHANGED <<inflight, received>>
    /\ UNCHANGED <<chat_messages, nextMessageId>>
    /\ UNCHANGED <<workers, active_connections, handlers, now>>

\* create_session, up to the commit of the new row: 404 for an agent that is
\* not in the agents directory, otherwise the row is inserted and committed.
create_session_commit(agent) ==
    /\ Idle
    /\ IF agent \notin KnownAgents
       THEN /\ response' = Resp("create", 0, 404)
            /\ UNCHANGED <<agent_sessions, nextId, creating>>
       ELSE /\ nextId \in SessionIds
            /\ agent_sessions' = Put(agent_sessions, nextId, AgentSession(agent))
            /\ nextId' = nextId + 1
            /\ creating' = {nextId}
            /\ response' = NoResponse
    /\ sent' = << >>
    /\ readWrites' = NoReadWrites
    /\ UNCHANGED <<base_agent, log_tasks, readline, sweep>>
    /\ UNCHANGED <<inflight, received>>
    /\ UNCHANGED <<chat_messages, nextMessageId>>
    /\ UNCHANGED <<workers, active_connections, handlers, now>>

\* create_session, from spawn_agent on: status running on success, status
\* failed and a 500 when spawn_agent raised.
create_session_spawn(spawned) ==
    /\ \E id \in creating :
        /\ IF spawned
           THEN /\ workers[id] < MaxWorkers
                /\ workers' = [workers EXCEPT ![id] = @ + 1]
                /\ log_tasks[id] < MaxLogTasks
                /\ log_tasks' = create_task(log_tasks, id)
                /\ agent_sessions' =
                       [agent_sessions EXCEPT ![id].status = "running"]
                /\ response' = Resp("create", id, 200)
           ELSE /\ workers' = workers
                /\ log_tasks' = log_tasks
                /\ agent_sessions' =
                       [agent_sessions EXCEPT ![id].status = "failed"]
                /\ response' = Resp("create", id, 500)
    /\ creating' = {}
    /\ sent' = << >>
    /\ readWrites' = NoReadWrites
    /\ UNCHANGED <<base_agent, readline, sweep>>
    /\ UNCHANGED <<inflight, received>>
    /\ UNCHANGED <<chat_messages, nextMessageId>>
    /\ UNCHANGED <<nextId, active_connections, handlers, now>>

\* Fault variant: a list_sessions that takes a session with no heartbeat
\* for a stale one.
ListStatusNoGrace(row, id, raised) ==
    IF row.status # "running" THEN row.status
    ELSE IF row.last_heartbeat = {} \/ Stale(row, now)
         THEN "unresponsive" ELSE row.status

\* The status list_sessions leaves a row with; raised: the process query of
\* this row raised.
ListStatus(row, id, raised) ==
    IF row.status # "running" THEN row.status
    ELSE IF row.last_heartbeat # {}
         THEN IF Stale(row, now) THEN "unresponsive" ELSE row.status
         ELSE IF get_container_status(id, raised) = {"exited"}
              THEN "exited" ELSE row.status

\* query(AgentSession).order_by(created_at.desc()), as the list the handler
\* returns: the rows ids of tbl, the latest insert first.
RECURSIVE NewestFirst(_, _)
NewestFirst(tbl, ids) ==
    IF ids = {} THEN << >>
    ELSE LET id == CHOOSE i \in ids : \A j \in ids : i >= j
         IN <<[id |-> id, status |-> tbl[id].status]>>
                \o NewestFirst(tbl, ids \ {id})

\* list_sessions: every row is reconciled, then reported; failing: the rows
\* whose process query raises.
list_sessions(failing) ==
    /\ Idle
    /\ agent_sessions' =
           [i \in DOMAIN agent_sessions |->
               [agent_sessions[i] EXCEPT
                   !.status = ListStatus(agent_sessions[i], i, i \in failing)]]
    /\ response' = RespBody("list", 0, 200,
                             NewestFirst(agent_sessions', DOMAIN agent_sessions))
    /\ sent' = << >>
    /\ readWrites' = CountReadWrites(agent_sessions, agent_sessions')
    /\ UNCHANGED <<base_agent, log_tasks, readline, sweep>>
    /\ UNCHANGED <<inflight, received>>
    /\ UNCHANGED <<chat_messages, nextMessageId>>
    /\ UNCHANGED <<nextId, workers, active_connections, handlers, now, creating>>

\* The status get_session leaves a row with.
GetStatus(row, id, raised) ==
    LET process_status == get_container_status(id, raised)
    IN IF process_status # {}
       THEN CHOOSE s \in process_status : TRUE
       ELSE row.status

\* get_session; raised: the process query raises.
get_session(id, raised) ==
    /\ Idle
    /\ IF ~Exists(id)
       THEN /\ response' = Resp("get", id, 404)
            /\ UNCHANGED agent_sessions
       ELSE /\ agent_sessions' =
                   [agent_sessions EXCEPT
                       ![id].status = GetStatus(agent_sessions[id], id, raised)]
            /\ response' = RespBody("get", id, 200,
                                     NewestFirst(agent_sessions', {id}))
    /\ sent' = << >>
    /\ readWrites' = CountReadWrites(agent_sessions, agent_sessions')
    /\ UNCHANGED <<base_agent, log_tasks, readline, sweep>>
    /\ UNCHANGED <<inflight, received>>
    /\ UNCHANGED <<chat_messages, nextMessageId>>
    /\ UNCHANGED <<nextId, workers, active_connections, handlers, now, creating>>

\* Whether a handler calls container_manager.stop_agent for this row.
StopsWorker(row) == row.status = "running"

\* VenvManager.stop_agent, having returned: pkill has ended every process of
\* the session. (When it raises instead, no process has been ended.)
stop_agent(w, id) == [w EXCEPT ![id] = 0]

\* stop_session; stopRaises: stop_agent raises when it is called; bad: the
\* connections whose send fails.
stop_session(id, stopRaises, bad) ==
    /\ Idle
    /\ IF ~Exists(id)
       THEN /\ response' = Resp("stop", id, 404)
            /\ sent' = << >>
            /\ UNCHANGED <<agent_sessions, workers, active_connections>>
       ELSE IF StopsWorker(agent_sessions[id]) /\ stopRaises
       THEN /\ response' = Resp("stop", id, 500)
            /\ sent' = << >>
            /\ UNCHANGED <<agent_sessions, workers, active_connections>>
       ELSE /\ workers' = IF StopsWorker(agent_sessions[id])
                          THEN stop_agent(workers, id) ELSE workers
            /\ agent_sessions' =
                   [agent_sessions EXCEPT ![id].status = "stopped",
                                          ![id].stopped_at = {now}]
            /\ sent' = send_message_log(<< >>, active_connections, id,
                                        StatusFrame("stopped"), bad)
            /\ active_connections' = send_message_ac(active_connections, id, bad)
            /\ response' = Resp("stop", id, 200)
    /\ readWrites' = NoReadWrites
    /\ UNCHANGED <<base_agent, log_tasks, readline, sweep>>
    /\ UNCHANGED <<inflight, received>>
    /\ UNCHANGED <<chat_messages, nextMessageId>>
    /\ UNCHANGED <<nextId, handlers, now, creating>>

\* Fault variant: a restart that leaves the stop timestamp in place.
RestartedKeepingStop(row) == [row EXCEPT !.status = "running"]

\* The row restart_session commits after spawn_agent returned.
Restarted(row) == [row EXCEPT !.status = "running", !.stopped_at = {}]

\* restart_session; spawned: spawn_agent returns (it raises otherwise).
restart_session(id, stopRaises, spawned, bad) ==
    /\ Idle
    /\ IF ~Exists(id)
       THEN /\ response' = Resp("restart", id, 404)
            /\ sent' = << >>
            /\ UNCHANGED <<agent_sessions, workers, active_connections,
                           log_tasks>>
       ELSE IF StopsWorker(agent_sessions[id]) /\ stopRaises
       THEN /\ agent_sessions' =
                   [agent_sessions EXCEPT ![id].status = "failed"]
            /\ response' = Resp("restart", id, 500)
            /\ sent' = << >>
            /\ UNCHANGED <<workers, active_connections, log_tasks>>
       ELSE LET reaped == IF StopsWorker(agent_sessions[id])
                          THEN stop_agent(workers, id) ELSE workers
            IN IF ~spawned
               THEN /\ workers' = reaped
                    /\ agent_sessions' =
                           [agent_sessions EXCEPT ![id].status = "failed"]
                    /\ response' = Resp("restart", id, 500)
                    /\ sent' = << >>
                    /\ UNCHANGED <<active_connections, log_tasks>>
               ELSE /\ reaped[id] < MaxWorkers
                    /\ workers' = [reaped EXCEPT ![id] = @ + 1]
                    /\ log_tasks[id] < MaxLogTasks
                    /\ log_tasks' = create_task(log_tasks, id)
                    /\ agent_sessions' =
                           [agent_sessions EXCEPT ![id] = Restarted(@)]
                    /\ sent' = send_message_log(<< >>, active_connections, id,
                                                StatusFrame("running"), bad)
                    /\ active_connections' =
                           send_message_ac(active_connections, id, bad)
                    /\ response' = Resp("restart", id, 200)
    /\ readWrites' = NoReadWrites
    /\ UNCHANGED <<base_agent, readline, sweep>>
    /\ UNCHANGED <<inflight, received>>
    /\ UNCHANGED <<chat_messages, nextMessageId>>
    /\ UNCHANGED <<nextId, handlers, now, creating>>

\* Fault variant: a delete_session that leaves the messages in the table.
KeepMessages(msgs, id) == msgs

\* db.query(ChatMessage).filter(ChatMessage.session_id == id).delete()
DeleteMessages(msgs, id) ==
    LET Other(m) == m.session_id # id
    IN SelectSeq(msgs, Other)

\* delete_session.
delete_session(id, stopRaises, bad) ==
    /\ Idle
    /\ IF ~Exists(id)
       THEN /\ response' = Resp("delete", id, 404)
            /\ sent' = << >>
            /\ UNCHANGED <<agent_sessions, workers, active_connections,
                           chat_messages>>
       ELSE IF StopsWorker(agent_sessions[id]) /\ stopRaises
       THEN /\ response' = Resp("delete", id, 500)
            /\ sent' = << >>
            /\ UNCHANGED <<agent_sessions, workers, active_connections,
                           chat_messages>>
       ELSE /\ workers' = IF StopsWorker(agent_sessions[id])
                          THEN stop_agent(workers, id) ELSE workers
            /\ chat_messages' = DeleteMessages(chat_messages, id)
            /\ agent_sessions' = Drop(agent_sessions, id)
            /\ sent' = send_message_log(<< >>, active_connections, id,
                                        StatusFrame("deleted"), bad)
            /\ active_connections' = send_message_ac(active_connections, id, bad)
            /\ response' = Resp("delete", id, 200)
    /\ readWrites' = NoReadWrites
    /\ UNCHANGED <<base_agent, log_tasks, readline, sweep>>
    /\ UNCHANGED <<inflight, received>>
    /\ UNCHANGED nextMessageId
    /\ UNCHANGED <<nextId, handlers, now, creating>>

\* The rows of session id in the table msgs, as get_messages reports them.
MessagesOf(msgs, id) ==
    LET Mine(m) == m.session_id = id
        rows == SelectSeq(msgs, Mine)
    IN [k \in 1..Len(rows) |->
           [id |-> rows[k].id, role |-> rows[k].role,
            content |-> rows[k].content, timestamp |-> rows[k].timestamp]]

\* order_by(ChatMessage.timestamp): every arrangement of rows in which the
\* timestamps do not decrease; rows of equal timestamp come in any order.
OrderedByTimestamp(rows) ==
    LET n == Len(rows)
        perms == {f \in [1..n -> 1..n] : \A a, b \in 1..n : a # b => f[a] # f[b]}
    IN {[k \in 1..n |-> rows[f[k]]] : f \in
            {g \in perms : \A a, b \in 1..n :
                a < b => rows[g[a]].timestamp <= rows[g[b]].timestamp}}

\* get_messages: the messages of the session, with no look at its row.
get_messages(id) ==
    /\ Idle
    /\ \E body \in OrderedByTimestamp(MessagesOf(chat_messages, id)) :
           response' = RespBody("messages", id, 200, body)
    /\ sent' = << >>
    /\ readWrites' = NoReadWrites
    /\ UNCHANGED <<base_agent, log_tasks, readline, sweep>>
    /\ UNCHANGED <<inflight, received>>
    /\ UNCHANGED <<agent_sessions, nextId, workers, active_connections,
                   handlers, now, creating, chat_messages, nextMessageId>>

\* ------------------------------------------------------ websocket handler
\* websocket_endpoint up to its receive loop, as the server sees it: closed
\* when the session has no row, otherwise accepted and registered.
websocket_endpoint_accept(ws, id) ==
    /\ Idle
    /\ ws \notin DOMAIN handlers
    /\ IF ~Exists(id)
       THEN UNCHANGED <<active_connections, handlers>>
       ELSE /\ active_connections' =
                   Put(active_connections, id, Conns(active_connections, id) \cup {ws})
            /\ handlers' = Put(handlers, ws, id)
    /\ response' = NoResponse
    /\ sent' = << >>
    /\ readWrites' = NoReadWrites
    /\ UNCHANGED <<log_tasks, readline, sweep>>
    /\ UNCHANGED <<inflight, received>>
    /\ UNCHANGED <<chat_messages, nextMessageId>>
    /\ UNCHANGED <<agent_sessions, nextId, workers, now, creating>>

\* websocket_endpoint up to its receive loop, for a connection that is not
\* the worker's.
websocket_endpoint_connect(ws, id) ==
    /\ websocket_endpoint_accept(ws, id)
    /\ UNCHANGED base_agent

\* websocket_endpoint: receive_json raises WebSocketDisconnect.
websocket_endpoint_disconnect(ws) ==
    /\ Idle
    /\ ws \in DOMAIN handlers
    /\ ws \notin DOMAIN inflight
    /\ active_connections' = disconnect(active_connections, ws, handlers[ws])
    /\ handlers' = Drop(handlers, ws)
    /\ response' = NoResponse
    /\ sent' = << >>
    /\ readWrites' = NoReadWrites
    /\ UNCHANGED <<base_agent, log_tasks, readline, sweep>>
    /\ UNCHANGED <<inflight, received>>
    /\ UNCHANGED <<chat_messages, nextMessageId>>
    /\ UNCHANGED <<agent_sessions, nextId, workers, now, creating>>

\* Fault variant: a heartbeat that also takes the session back to running.
HeartbeatRevives(row, t) ==
    [row EXCEPT !.last_heartbeat = {t}, !.status = "running"]

\* session.last_heartbeat = datetime.now()
Heartbeat(row, t) == [row EXCEPT !.last_heartbeat = {t}]

\* websocket_endpoint, a frame of type heartbeat: last_heartbeat is set and
\* committed, and the frame is echoed. The commit of a row that was deleted
\* raises, which ends the handler.
websocket_endpoint_heartbeat(ws, bad) ==
    /\ Idle
    /\ ws \in DOMAIN handlers
    /\ LET id == handlers[ws]
       IN IF Exists(id)
          THEN /\ agent_sessions' =
                      [agent_sessions EXCEPT ![id] = Heartbeat(@, now)]
               /\ sent' = send_message_log(<< >>, active_connections, id,
                                           HeartbeatFrame(now), bad)
               /\ active_connections' =
                      send_message_ac(active_connections, id, bad)
               /\ UNCHANGED handlers
          ELSE /\ active_connections' = disconnect(active_connections, ws, id)
               /\ handlers' = Drop(handlers, ws)
               /\ sent' = << >>
               /\ UNCHANGED agent_sessions
    /\ response' = NoResponse
    /\ readWrites' = NoReadWrites
    /\ UNCHANGED <<base_agent, log_tasks, readline, sweep>>
    /\ UNCHANGED <<inflight, received>>
    /\ UNCHANGED <<chat_messages, nextMessageId>>
    /\ UNCHANGED <<nextId, workers, now, creating>>

\* Fault variant: a chat_messages table without the foreign key.
NoForeignKey(id) == TRUE

\* session_id = Column(Integer, ForeignKey("agent_sessions.id")): the insert
\* of a message is committed only while the row of its session exists.
ForeignKeyHolds(id) == Exists(id)

\* Fault variant: a handler that broadcasts a message it has not saved.
Unsaved(msgs, m) == msgs

\* db.add(msg); db.commit()
Saved(msgs, m) == Append(msgs, m)

\* The messages the table takes: MaxMessages of a conversation, and on top
\* of them the greeting of the worker of the session, once it has sent it.
MessageCap(id) ==
    MaxMessages + (IF base_agent[id].pc = "loop" THEN 1 ELSE 0)

\* ChatMessage(session_id=..., role=..., content=...), committed at instant t.
ChatMessage(mid, id, role, content, t) ==
    [id |-> mid, session_id |-> id, role |-> role, content |-> content,
     timestamp |-> t]

\* The branch of websocket_endpoint for a frame of type user_message, as the
\* server sees it: the message is saved,
\* then the raw frame and the display frame are sent, one after the other.
\* The insert for a session whose row was deleted breaks the foreign key and
\* raises, which ends the handler.
user_message_branch(ws, content, bad) ==
    /\ Idle
    /\ ws \in DOMAIN handlers
    /\ LET id == handlers[ws]
       IN IF ForeignKeyHolds(id)
          THEN /\ Len(chat_messages) < MessageCap(id)
               /\ chat_messages' = Saved(chat_messages,
                      ChatMessage(nextMessageId, id, "user", content, now))
               /\ nextMessageId' = nextMessageId + 1
               /\ LET first == send_message_ac(active_connections, id, bad)
                      log == send_message_log(<< >>, active_connections, id,
                                              UserMessageFrame(content), bad)
                  IN /\ sent' = send_message_log(log, first, id,
                                     MessageFrame("user", content, now), bad)
                     /\ active_connections' = send_message_ac(first, id, bad)
               /\ UNCHANGED handlers
          ELSE /\ active_connections' = disconnect(active_connections, ws, id)
               /\ handlers' = Drop(handlers, ws)
               /\ sent' = << >>
               /\ UNCHANGED <<chat_messages, nextMessageId>>
    /\ response' = NoResponse
    /\ readWrites' = NoReadWrites
    /\ UNCHANGED <<log_tasks, readline, sweep>>
    /\ UNCHANGED <<inflight, received>>
    /\ UNCHANGED <<agent_sessions, nextId, workers, now, creating>>

\* websocket_endpoint, a frame of type user_message that reaches no worker.
websocket_endpoint_user_message(ws, content, bad) ==
    /\ user_message_branch(ws, content, bad)
    /\ UNCHANGED base_agent

\* The branch of websocket_endpoint for a frame of type agent_message, as
\* the server sees it: the message is saved and the display frame is sent.
agent_message_branch(ws, content, bad) ==
    /\ Idle
    /\ ws \in DOMAIN handlers
    /\ LET id == handlers[ws]
       IN IF ForeignKeyHolds(id)
          THEN /\ Len(chat_messages) < MessageCap(id)
               /\ chat_messages' = Saved(chat_messages,
                      ChatMessage(nextMessageId, id, "agent", content, now))
               /\ nextMessageId' = nextMessageId + 1
               /\ sent' = send_message_log(<< >>, active_connections, id,
                                  MessageFrame("agent", content, now), bad)
               /\ active_connections' =
                      send_message_ac(active_connections, id, bad)
               /\ UNCHANGED handlers
          ELSE /\ active_connections' = disconnect(active_connections, ws, id)
               /\ handlers' = Drop(handlers, ws)
               /\ sent' = << >>
               /\ UNCHANGED <<chat_messages, nextMessageId>>
    /\ response' = NoResponse
    /\ readWrites' = NoReadWrites
    /\ UNCHANGED <<log_tasks, readline, sweep>>
    /\ UNCHANGED <<inflight, received>>
    /\ UNCHANGED <<agent_sessions, nextId, workers, now, creating>>

\* websocket_endpoint, a frame of type agent_message from a sender whose
\* own state is not followed.
websocket_endpoint_agent_message(ws, content, bad) ==
    /\ agent_message_branch(ws, content, bad)
    /\ UNCHANGED base_agent

\* websocket_endpoint, a frame that is forwarded and not saved: the frame
\* forward is sent to the connections of the session the handler serves. No
\* table is read, so the row of the session may be gone.
Forward(ws, forward, bad) ==
    /\ Idle
    /\ ws \in DOMAIN handlers
    /\ LET id == handlers[ws]
       IN /\ sent' = send_message_log(<< >>, active_connections, id, forward,
                                      bad)
          /\ active_connections' = send_message_ac(active_connections, id, bad)
    /\ response' = NoResponse
    /\ readWrites' = NoReadWrites
    /\ UNCHANGED <<base_agent, log_tasks, readline, sweep>>
    /\ UNCHANGED <<agent_sessions, nextId, workers, handlers, now, creating,
                   chat_messages, nextMessageId, inflight, received>>

\* websocket_endpoint, a frame of type agent_message_stream.
websocket_endpoint_agent_message_stream(ws, content, bad) ==
    Forward(ws, MessageStreamFrame(content, now), bad)

\* websocket_endpoint, a frame of type agent_log.
websocket_endpoint_agent_log(ws, content, bad) ==
    Forward(ws, LogFrame(content, now), bad)

\* websocket_endpoint, a frame of type typing.
websocket_endpoint_typing(ws, is_typing, bad) ==
    Forward(ws, TypingFrame(is_typing), bad)

\* websocket_endpoint, a frame of type agent_message_save, which
\* BaseAgent.save_message sends: no branch of the handler takes it.
websocket_endpoint_agent_message_save(ws, content) ==
    /\ Idle
    /\ ws \in DOMAIN handlers
    /\ response' = NoResponse
    /\ sent' = << >>
    /\ readWrites' = NoReadWrites
    /\ UNCHANGED <<base_agent, log_tasks, readline, sweep>>
    /\ UNCHANGED <<agent_sessions, nextId, workers, active_connections,
                   handlers, now, creating, chat_messages, nextMessageId,
                   inflight, received>>

\* The inbound frames that no branch of the handler is written for: text
\* that is not JSON, JSON that is not an object, and an object whose type
\* is missing or unknown.
MalformedKinds == {"not_json", "not_object", "unknown_type"}

\* websocket_endpoint, a malformed frame. receive_json raises on text that
\* is not JSON and data.get raises on a value that is not an object; either
\* exception ends the handler, which disconnects. An object of another type
\* falls through every branch and the loop goes on.
websocket_endpoint_malformed(ws, kind) ==
    /\ Idle
    /\ ws \in DOMAIN handlers
    /\ ws \notin DOMAIN inflight
    /\ IF kind = "unknown_type"
       THEN UNCHANGED <<active_connections, handlers>>
       ELSE /\ active_connections' =
                   disconnect(active_connections, ws, handlers[ws])
            /\ handlers' = Drop(handlers, ws)
    /\ response' = NoResponse
    /\ sent' = << >>
    /\ readWrites' = NoReadWrites
    /\ UNCHANGED <<base_agent, log_tasks, readline, sweep>>
    /\ UNCHANGED <<agent_sessions, nextId, workers, now, creating,
                   chat_messages, nextMessageId, inflight, received>>

\* ------------------------------------------- broadcasts, send by send
\* Every await of send_json in send_message is a point where the handler is
\* suspended and other handlers run. A step below runs one handler from such
\* a point to its next send; the frame of that send is on its way to the
\* connection when the step ends.

\* The handler of a websocket, suspended in a send of send_message: the
\* session, the frames it has still to broadcast (the one being sent first),
\* the set of connections as the for loop found it, the connections the loop
\* has come to and those whose send raised.
Task(id, todo, start, visited, failed) ==
    [id |-> id, todo |-> todo, start |-> start, visited |-> visited,
     failed |-> failed]

\* The handler calls send_message for the frames todo, one after the other,
\* and runs to the first send, to connection conn, which succeeds (ok) or
\* raises. While the session has no entry every send_message returns at once.
\* task is empty when the handler is through with its broadcasts.
Started(ac, rcv, id, todo, conn, ok) ==
    IF todo = << >> \/ id \notin DOMAIN ac
    THEN [ac |-> ac, received |-> rcv, task |-> << >>, log |-> << >>]
    ELSE [ac |-> ac,
          received |-> IF ok THEN [rcv EXCEPT ![conn] = Append(@, Head(todo))]
                       ELSE rcv,
          task |-> <<Task(id, todo, ac[id], {conn},
                          IF ok THEN {} ELSE {conn})>>,
          log |-> IF ok THEN <<[frame |-> Head(todo), to |-> {conn}]>>
                  ELSE << >>]

\* The state after such a run of the handler of ws.
Suspended(ws, id, out) ==
    /\ active_connections' = out.ac
    /\ received' = out.received
    /\ sent' = out.log
    /\ inflight' = IF out.task = << >> THEN Drop(inflight, ws)
                   ELSE Put(inflight, ws, out.task[1])
    /\ response' = IF out.task = << >> THEN Resp("broadcast", id, 200)
                   ELSE NoResponse

\* websocket_endpoint, a frame of type user_message, up to the first send:
\* the message is saved and the broadcast of the raw frame begins.
websocket_endpoint_user_message_begin(ws, content, conn, ok) ==
    /\ Idle
    /\ ws \in DOMAIN handlers
    /\ ws \notin DOMAIN inflight
    /\ LET id == handlers[ws]
       IN IF ForeignKeyHolds(id)
          THEN /\ Len(chat_messages) < MessageCap(id)
               /\ id \in DOMAIN active_connections
                     => conn \in active_connections[id]
               /\ chat_messages' = Saved(chat_messages,
                      ChatMessage(nextMessageId, id, "user", content, now))
               /\ nextMessageId' = nextMessageId + 1
               /\ Suspended(ws, id,
                      Started(active_connections, received, id,
                              <<UserMessageFrame(content),
                                MessageFrame("user", content, now)>>,
                              conn, ok))
               /\ UNCHANGED handlers
          ELSE /\ active_connections' = disconnect(active_connections, ws, id)
               /\ handlers' = Drop(handlers, ws)
               /\ sent' = << >>
               /\ response' = NoResponse
               /\ UNCHANGED <<chat_messages, nextMessageId, inflight, received>>
    /\ readWrites' = NoReadWrites
    /\ UNCHANGED <<base_agent, log_tasks, readline, sweep>>
    /\ UNCHANGED <<agent_sessions, nextId, workers, now, creating>>

\* websocket_endpoint, a frame of type agent_message, up to the first send.
websocket_endpoint_agent_message_begin(ws, content, conn, ok) ==
    /\ Idle
    /\ ws \in DOMAIN handlers
    /\ ws \notin DOMAIN inflight
    /\ LET id == handlers[ws]
       IN IF ForeignKeyHolds(id)
          THEN /\ Len(chat_messages) < MessageCap(id)
               /\ id \in DOMAIN active_connections
                     => conn \in active_connections[id]
               /\ chat_messages' = Saved(chat_messages,
                      ChatMessage(nextMessageId, id, "agent", content, now))
               /\ nextMessageId' = nextMessageId + 1
               /\ Suspended(ws, id,
                      Started(active_connections, received, id,
                              <<MessageFrame("agent", content, now)>>,
                              conn, ok))
               /\ UNCHANGED handlers
          ELSE /\ active_connections' = disconnect(active_connections, ws, id)
               /\ handlers' = Drop(handlers, ws)
               /\ sent' = << >>
               /\ response' = NoResponse
               /\ UNCHANGED <<chat_messages, nextMessageId, inflight, received>>
    /\ readWrites' = NoReadWrites
    /\ UNCHANGED <<base_agent, log_tasks, readline, sweep>>
    /\ UNCHANGED <<agent_sessions, nextId, workers, now, creating>>

\* send_message, resumed after a send. The for loop asks the iterator of the
\* live set for the next connection:
\*   raise - the set has another size than when the loop began (or other
\*           members at the same size, which the iterator may or may not
\*           notice): RuntimeError leaves send_message, and the except clause
\*           of websocket_endpoint disconnects ws and ends the handler;
\*   next  - the loop goes on to connection conn and sends;
\*   end   - the loop is through: the failed connections are disconnected,
\*           and the handler goes on to its next frame, if any.
send_message_resume(ws, choice, conn, ok) ==
    /\ ws \in DOMAIN inflight
    /\ LET t == inflight[ws]
           cur == Conns(active_connections, t.id)
           same == Cardinality(cur) = Cardinality(t.start)
           unvisited == cur \ t.visited
       IN CASE choice = "raise" ->
                 /\ ~same \/ cur # t.start
                 /\ active_connections' =
                        disconnect(active_connections, ws, t.id)
                 /\ handlers' = Drop(handlers, ws)
                 /\ inflight' = Drop(inflight, ws)
                 /\ response' = Resp("broadcast", t.id, 500)
                 /\ sent' = << >>
                 /\ UNCHANGED received
            [] choice = "next" ->
                 /\ same
                 /\ conn \in unvisited
                 /\ received' = IF ok
                                THEN [received EXCEPT
                                         ![conn] = Append(@, Head(t.todo))]
                                ELSE received
                 /\ sent' = IF ok
                            THEN <<[frame |-> Head(t.todo), to |-> {conn}]>>
                            ELSE << >>
                 /\ inflight' =
                        [inflight EXCEPT
                            ![ws].visited = @ \cup {conn},
                            ![ws].failed = IF ok THEN @ ELSE @ \cup {conn}]
                 /\ response' = NoResponse
                 /\ UNCHANGED <<active_connections, handlers>>
            [] choice = "end" ->
                 /\ same
                 /\ unvisited = {} \/ cur # t.start
                 /\ LET ac1 == disconnect_all(active_connections, t.failed,
                                              t.id)
                    IN /\ (Tail(t.todo) # << >> /\ t.id \in DOMAIN ac1)
                             => conn \in ac1[t.id]
                       /\ Suspended(ws, t.id,
                              Started(ac1, received, t.id, Tail(t.todo),
                                      conn, ok))
                 /\ UNCHANGED handlers
    /\ readWrites' = NoReadWrites
    /\ UNCHANGED <<base_agent, log_tasks, readline, sweep>>
    /\ UNCHANGED <<agent_sessions, nextId, workers, now, creating,
                   chat_messages, nextMessageId>>

\* ------------------------------------------------------- health monitor
\* Fault variant: a monitor that marks at 45 seconds exactly.
MonitorMarksAtThreshold(row) ==
    /\ row.status = "running"
    /\ \E hb \in row.last_heartbeat : now - hb >= HeartbeatTimeout

\* Whether monitor_session_health marks this row unresponsive.
MonitorMarks(row) ==
    /\ row.status = "running"
    /\ row.last_heartbeat # {}
    /\ Stale(row, now)

\* The registry and the delivered frames after the sweep has broadcast the
\* new status of the sessions ids, in the order of the query.
RECURSIVE MonitorBroadcasts(_, _, _)
MonitorBroadcasts(ids, st, bad) ==
    IF ids = {} THEN st
    ELSE LET id == CHOOSE i \in ids : \A j \in ids : i <= j
         IN MonitorBroadcasts(ids \ {id},
                [ac |-> send_message_ac(st.ac, id, bad),
                 log |-> send_message_log(st.log, st.ac, id,
                                          StatusFrame("unresponsive"), bad)],
                bad)

\* monitor_session_health, one pass of its loop.
monitor_session_health(bad) ==
    /\ Idle
    /\ agent_sessions' =
           [i \in DOMAIN agent_sessions |->
               IF MonitorMarks(agent_sessions[i])
               THEN [agent_sessions[i] EXCEPT !.status = "unresponsive"]
               ELSE agent_sessions[i]]
    /\ LET marked == {i \in DOMAIN agent_sessions :
                          MonitorMarks(agent_sessions[i])}
           done == MonitorBroadcasts(marked, [ac |-> active_connections,
                                              log |-> << >>], bad)
       IN /\ active_connections' = done.ac
          /\ sent' = done.log
    /\ response' = Resp("sweep", 0, 0)
    /\ readWrites' = NoReadWrites
    /\ UNCHANGED <<base_agent, log_tasks, readline, sweep>>
    /\ UNCHANGED <<inflight, received>>
    /\ UNCHANGED <<chat_messages, nextMessageId>>
    /\ UNCHANGED <<nextId, workers, handlers, now, creating>>

\* monitor_session_health, one pass of its loop in which the commit for the
\* session failed raises: the sessions the query listed before it are done,
\* the change of failed is rolled back by db.close(), the exception leaves the
\* for loop, is logged, and the while loop goes on to its next pass.
monitor_session_health_raises(failed, bad) ==
    /\ Idle
    /\ Exists(failed)
    /\ MonitorMarks(agent_sessions[failed])
    /\ LET before == {i \in DOMAIN agent_sessions :
                          MonitorMarks(agent_sessions[i]) /\ i < failed}
           done == MonitorBroadcasts(before, [ac |-> active_connections,
                                              log |-> << >>], bad)
       IN /\ agent_sessions' =
                 [i \in DOMAIN agent_sessions |->
                     IF i \in before
                     THEN [agent_sessions[i] EXCEPT !.status = "unresponsive"]
                     ELSE agent_sessions[i]]
          /\ active_connections' = done.ac
          /\ sent' = done.log
    /\ response' = Resp("sweep", failed, 500)
    /\ readWrites' = NoReadWrites
    /\ UNCHANGED <<base_agent, log_tasks, readline, sweep>>
    /\ UNCHANGED <<inflight, received>>
    /\ UNCHANGED <<chat_messages, nextMessageId>>
    /\ UNCHANGED <<nextId, workers, handlers, now, creating>>

\* Whether the for loop of monitor_session_health marks the row of a session
\* of its query: the row has a heartbeat and it is stale. The status is
\* looked at by the query only.
LoopMarks(row) ==
    /\ row.last_heartbeat # {}
    /\ Stale(row, now)

\* The elements of a set of ids in ascending order, the order of the query.
RECURSIVE Ascending(_)
Ascending(ids) ==
    IF ids = {} THEN << >>
    ELSE LET id == CHOOSE i \in ids : \A j \in ids : i <= j
         IN <<id>> \o Ascending(ids \ {id})

\* The for loop of monitor_session_health over the sessions todo of its
\* query, up to the first broadcast that has a connection to send to, where
\* the pass is suspended; rest then holds the sessions still to come. The
\* commit has expired the rows read by the query, so each is read again when
\* the loop comes to it, and a row that has been deleted raises, which ends
\* the pass.
RECURSIVE SweepRun(_, _, _, _, _)
SweepRun(tbl, ac, log, todo, bad) ==
    LET through == [tbl |-> tbl, ac |-> ac, log |-> log, rest |-> << >>]
    IN IF todo = << >> THEN through
       ELSE LET id == Head(todo)
            IN IF id \notin DOMAIN tbl THEN through
               ELSE IF ~LoopMarks(tbl[id])
               THEN SweepRun(tbl, ac, log, Tail(todo), bad)
               ELSE LET marked == [tbl EXCEPT ![id].status = "unresponsive"]
                        ac1 == send_message_ac(ac, id, bad)
                        log1 == send_message_log(log, ac, id,
                                    StatusFrame("unresponsive"), bad)
                    IN IF Conns(ac, id) # {}
                       THEN [tbl |-> marked, ac |-> ac1, log |-> log1,
                             rest |-> <<Tail(todo)>>]
                       ELSE SweepRun(marked, ac1, log1, Tail(todo), bad)

\* The state after such a run of the monitor.
SweepSuspended(out) ==
    /\ agent_sessions' = out.tbl
    /\ active_connections' = out.ac
    /\ sent' = out.log
    /\ sweep' = out.rest
    /\ response' = Resp("sweep", 0, 0)
    /\ readWrites' = NoReadWrites
    /\ UNCHANGED <<base_agent, log_tasks, readline>>
    /\ UNCHANGED <<inflight, received>>
    /\ UNCHANGED <<chat_messages, nextMessageId>>
    /\ UNCHANGED <<nextId, workers, handlers, now, creating>>

\* monitor_session_health, a pass from its query to the first broadcast in
\* which it is suspended (or to its end).
monitor_session_health_begin(bad) ==
    /\ Idle
    /\ sweep = << >>
    /\ LET sessions == Ascending({i \in DOMAIN agent_sessions :
                                     agent_sessions[i].status = "running"})
       IN SweepSuspended(SweepRun(agent_sessions, active_connections, << >>,
                                  sessions, bad))

\* monitor_session_health, from a broadcast it was suspended in to the next
\* one (or to the end of the pass).
monitor_session_health_resume(bad) ==
    /\ Idle
    /\ sweep # << >>
    /\ SweepSuspended(SweepRun(agent_sessions, active_connections, << >>,
                               sweep[1], bad))

\* ------------------------------------------------------------ log relay
\* connection_manager.broadcast_log: the frame of a line of the log file.
BroadcastLogFrame(line) ==
    [StatusFrame("") EXCEPT !.type = "log", !.content = line]

\* No task holds the thread of the event loop: a handler, the monitor or a
\* task can be run.
EventLoopFree == readline = {}

\* stream_container_logs, scheduled: stream_logs starts (or goes back to)
\* process.stdout.readline(), a blocking read of the output of tail -f
\* that is called in the thread of the event loop.
stream_logs_readline(id) ==
    /\ Idle
    /\ EventLoopFree
    /\ log_tasks[id] >= 1
    /\ readline' = {id}
    /\ response' = NoResponse
    /\ sent' = << >>
    /\ readWrites' = NoReadWrites
    /\ UNCHANGED <<agent_sessions, nextId, workers, active_connections,
                   handlers, now, creating, chat_messages, nextMessageId,
                   inflight, received, base_agent, log_tasks, sweep>>

\* tail prints a line: readline returns it, stream_logs yields it,
\* stream_container_logs broadcasts it, and asyncio.sleep(0) gives the
\* thread back to the event loop.
stream_logs_line(id, line, bad) ==
    /\ readline = {id}
    /\ readline' = {}
    /\ sent' = send_message_log(<< >>, active_connections, id,
                                BroadcastLogFrame(line), bad)
    /\ active_connections' = send_message_ac(active_connections, id, bad)
    /\ response' = NoResponse
    /\ readWrites' = NoReadWrites
    /\ UNCHANGED <<agent_sessions, nextId, workers, handlers, now, creating,
                   chat_messages, nextMessageId, inflight, received,
                   base_agent, log_tasks, sweep>>

\* tail ends (its log file is missing, or docker exec is killed): readline
\* returns the empty string, the generator and with it the task end.
stream_logs_eof(id) ==
    /\ readline = {id}
    /\ readline' = {}
    /\ log_tasks' = [log_tasks EXCEPT ![id] = @ - 1]
    /\ response' = NoResponse
    /\ sent' = << >>
    /\ readWrites' = NoReadWrites
    /\ UNCHANGED <<agent_sessions, nextId, workers, active_connections,
                   handlers, now, creating, chat_messages, nextMessageId,
                   inflight, received, base_agent, sweep>>

\* The event loop runs a handler for session id: a request or a websocket.
Served(id) ==
    /\ EventLoopFree
    /\ \/ \E stopRaises \in BOOLEAN,
             bad \in SUBSET Conns(active_connections, id) :
              stop_session(id, stopRaises, bad)
       \/ \E stopRaises \in BOOLEAN, spawned \in BOOLEAN,
             bad \in SUBSET Conns(active_connections, id) :
              restart_session(id, stopRaises, spawned, bad)
       \/ \E ws \in Channels : websocket_endpoint_connect(ws, id)

\* ----------------------------------------------------------- environment
\* A worker process of the session ends by itself.
WorkerExit(id) ==
    /\ Idle
    /\ workers[id] > 0
    /\ workers' = [workers EXCEPT ![id] = @ - 1]
    /\ response' = NoResponse
    /\ sent' = << >>
    /\ readWrites' = NoReadWrites
    /\ UNCHANGED <<base_agent, log_tasks, readline, sweep>>
    /\ UNCHANGED <<inflight, received>>
    /\ UNCHANGED <<chat_messages, nextMessageId>>
    /\ UNCHANGED <<agent_sessions, nextId, active_connections, handlers, now,
                   creating>>

\* Time passes, up to instant t.
Tick(t) ==
    /\ Idle
    /\ t > now
    /\ now' = t
    /\ response' = NoResponse
    /\ sent' = << >>
    /\ readWrites' = NoReadWrites
    /\ UNCHANGED <<base_agent, log_tasks, readline, sweep>>
    /\ UNCHANGED <<inflight, received>>
    /\ UNCHANGED <<chat_messages, nextMessageId>>
    /\ UNCHANGED <<agent_sessions, nextId, workers, active_connections,
                   handlers, creating>>

\* The steps of the handlers, the monitor and the workers that need no
\* passage of time.
Requests ==
    \/ \E agent \in AgentRequests : create_session_commit(agent)
    \/ \E spawned \in BOOLEAN : create_session_spawn(spawned)
    \/ \E failing \in SUBSET SessionIds : list_sessions(failing)
    \/ \E id \in SessionIds, raised \in BOOLEAN : get_session(id, raised)
    \/ \E id \in SessionIds : \E stopRaises \in BOOLEAN,
          bad \in SUBSET Conns(active_connections, id) :
           stop_session(id, stopRaises, bad)
    \/ \E id \in SessionIds : \E stopRaises \in BOOLEAN, spawned \in BOOLEAN,
          bad \in SUBSET Conns(active_connections, id) :
           restart_session(id, stopRaises, spawned, bad)
    \/ \E id \in SessionIds : \E stopRaises \in BOOLEAN,
          bad \in SUBSET Conns(active_connections, id) :
           delete_session(id, stopRaises, bad)
    \/ \E ws \in Channels, id \in SessionIds : websocket_endpoint_connect(ws, id)
    \/ \E ws \in Channels : websocket_endpoint_disconnect(ws)
    \/ \E ws \in Channels, bad \in SUBSET Channels : websocket_endpoint_heartbeat(ws, bad)
    \/ \E bad \in SUBSET Channels : monitor_session_health(bad)
    \/ \E id \in SessionIds : get_messages(id)
    \/ \E id \in SessionIds : WorkerExit(id)

\* With the clock: time passes, and a sweep may find a stale session and
\* fail on it.
Next ==
    \/ Requests
    \/ \E failed \in SessionIds, bad \in SUBSET Channels :
           monitor_session_health_raises(failed, bad)
    \/ \E t \in Instants : Tick(t)

Spec == Init /\ [][Next]_vars

\* The same system with the message frames of the websocket handler, at
\* one instant of the clock.
NextChat ==
    \/ Requests
    \/ \E ws \in Channels, content \in Contents, bad \in SUBSET Channels :
           websocket_endpoint_user_message(ws, content, bad)
    \/ \E ws \in Channels, content \in Contents, bad \in SUBSET Channels :
           websocket_endpoint_agent_message(ws, content, bad)
    \/ \E ws \in Channels, content \in Contents, bad \in SUBSET Channels :
           websocket_endpoint_agent_message_stream(ws, content, bad)
    \/ \E ws \in Channels, content \in Contents, bad \in SUBSET Channels :
           websocket_endpoint_agent_log(ws, content, bad)
    \/ \E ws \in Channels, is_typing \in BOOLEAN, bad \in SUBSET Channels :
           websocket_endpoint_typing(ws, is_typing, bad)
    \/ \E ws \in Channels, content \in Contents :
           websocket_endpoint_agent_message_save(ws, content)
    \/ \E ws \in Channels, kind \in MalformedKinds :
           websocket_endpoint_malformed(ws, kind)

SpecChat == Init /\ [][NextChat]_vars

\* The health monitor over two sessions: the backend starts on a database
\* that holds the rows of two sessions of an earlier run, some of them with
\* a heartbeat; websockets connect and send heartbeats, time passes and the
\* monitor sweeps.
SweepIds == {1, 2}

InitSweep ==
    /\ agent_sessions \in
           [SweepIds -> {[AgentSession("echo") EXCEPT !.status = st,
                                                     !.last_heartbeat = hb] :
                            st \in {"running", "exited"}, hb \in {{}, {0}}}]
    /\ nextId = 3
    /\ workers = [i \in SweepIds |-> 0]
    /\ active_connections = << >>
    /\ handlers = << >>
    /\ now = 0
    /\ creating = {}
    /\ response = NoResponse
    /\ sent = << >>
    /\ readWrites = NoReadWrites
    /\ chat_messages = << >>
    /\ nextMessageId = 1
    /\ inflight = << >>
    /\ received = [ws \in Channels |-> << >>]
    /\ base_agent = [i \in SweepIds |-> NotStarted]
    /\ log_tasks = [i \in SweepIds |-> 0]
    /\ readline = {}
    /\ sweep = << >>

NextSweep ==
    \/ \E bad \in SUBSET Channels : monitor_session_health(bad)
    \/ \E failed \in SweepIds, bad \in SUBSET Channels :
           monitor_session_health_raises(failed, bad)
    \/ \E ws \in Channels, id \in SweepIds : websocket_endpoint_connect(ws, id)
    \/ \E ws \in Channels : websocket_endpoint_disconnect(ws)
    \/ \E ws \in Channels, bad \in SUBSET Channels :
           websocket_endpoint_heartbeat(ws, bad)
    \/ \E t \in Instants : Tick(t)

SpecSweep == InitSweep /\ [][NextSweep]_vars

\* The health monitor suspended in its broadcasts, over the same two
\* sessions, which are stopped and deleted meanwhile.
NextOverlap ==
    \/ \E bad \in SUBSET Channels : monitor_session_health_begin(bad)
    \/ \E bad \in SUBSET Channels : monitor_session_health_resume(bad)
    \/ \E ws \in Channels, id \in SweepIds : websocket_endpoint_connect(ws, id)
    \/ \E ws \in Channels : websocket_endpoint_disconnect(ws)
    \/ \E id \in SweepIds : \E stopRaises \in BOOLEAN,
          bad \in SUBSET Conns(active_connections, id) :
           stop_session(id, stopRaises, bad)
    \/ \E id \in SweepIds : \E stopRaises \in BOOLEAN,
          bad \in SUBSET Conns(active_connections, id) :
           delete_session(id, stopRaises, bad)
    \/ \E t \in Instants : Tick(t)

SpecOverlap == InitSweep /\ [][NextOverlap]_vars

\* The log relay tasks of two sessions and the handlers that share the
\* event loop with them; the sessions are those of an earlier run, their
\* workers gone.
InitLogs ==
    /\ InitSweep
    /\ \A id \in SweepIds :
          /\ agent_sessions[id].status = "exited"
          /\ agent_sessions[id].last_heartbeat = {}

NextLogs ==
    \/ \E id \in SweepIds : Served(id)
    \/ \E id \in SweepIds : stream_logs_readline(id)
    \/ \E id \in SweepIds, line \in Contents, bad \in SUBSET Channels :
           stream_logs_line(id, line, bad)
    \/ \E id \in SweepIds : stream_logs_eof(id)

SpecLogs == InitLogs /\ [][NextLogs]_vars

\* The broadcasts of the websocket handlers send by send: a session is
\* created, websockets connect and disconnect, and their handlers take
\* message frames and broadcast them, suspended in every send.
Choices == {"raise", "next", "end"}

NextBroadcast ==
    \/ \E agent \in AgentRequests : create_session_commit(agent)
    \/ \E spawned \in BOOLEAN : create_session_spawn(spawned)
    \/ \E ws \in Channels, id \in SessionIds : websocket_endpoint_connect(ws, id)
    \/ \E ws \in Channels : websocket_endpoint_disconnect(ws)
    \/ \E ws \in Channels, content \in Contents, conn \in Channels,
          ok \in BOOLEAN :
           websocket_endpoint_user_message_begin(ws, content, conn, ok)
    \/ \E ws \in Channels, content \in Contents, conn \in Channels,
          ok \in BOOLEAN :
           websocket_endpoint_agent_message_begin(ws, content, conn, ok)
    \/ \E ws \in Channels, choice \in Choices, conn \in Channels,
          ok \in BOOLEAN :
           send_message_resume(ws, choice, conn, ok)

SpecBroadcast == Init /\ [][NextBroadcast]_vars

\* ------------------------------------------------------ the worker
\* The connection of the worker of a session, and the connection of a user
\* interface.
WorkerChannel == 1
ClientChannel == 2

\* The greeting BaseAgent.run sends once it is connected.
Welcome == "Hello! I'm echo agent. How can I help you?"

\* EchoAgent.process_message: the answer to a message, "You said: " and
\* the message.
process_message(message) == CASE message = "hi" -> "You said: hi"

\* BaseAgent.run, connect: the worker process opens its websocket to the
\* session it was spawned for (whose row exists as long as nothing deletes
\* it) and the server accepts it.
BaseAgent_connect(id) ==
    /\ base_agent[id].pc = "connect"
    /\ workers[id] >= 1
    /\ Exists(id)
    /\ websocket_endpoint_accept(WorkerChannel, id)
    /\ base_agent' = [base_agent EXCEPT ![id].pc = "welcome"]

\* BaseAgent.run, the greeting: an agent_message frame, which the server
\* saves and broadcasts; then the receiver loop is started.
BaseAgent_run_welcome(id) ==
    /\ base_agent[id].pc = "welcome"
    /\ WorkerChannel \in DOMAIN handlers
    /\ handlers[WorkerChannel] = id
    /\ agent_message_branch(WorkerChannel, Welcome, {})
    /\ base_agent' = [base_agent EXCEPT ![id].pc = "loop"]

\* A user_message frame from the connection ws, every send succeeding:
\* the server saves and broadcasts it, and BaseAgent._message_receiver_loop
\* puts the raw frame in message_queue where the connection of the worker is
\* among those it was sent to.
BaseAgent_message_receiver_loop(ws, content) ==
    /\ ws # WorkerChannel
    /\ user_message_branch(ws, content, {})
    /\ LET id == handlers[ws]
       IN base_agent' =
              IF Exists(id) /\ WorkerChannel \in Conns(active_connections, id)
              THEN [base_agent EXCEPT
                       ![id].message_queue = Append(@, content)]
              ELSE base_agent

\* BaseAgent.run, the main loop: the next message of the queue is processed
\* and the answer sent as an agent_message frame, which the server saves and
\* broadcasts.
BaseAgent_run(id) ==
    /\ base_agent[id].pc = "loop"
    /\ base_agent[id].message_queue # << >>
    /\ WorkerChannel \in DOMAIN handlers
    /\ handlers[WorkerChannel] = id
    /\ agent_message_branch(WorkerChannel,
           process_message(Head(base_agent[id].message_queue)), {})
    /\ base_agent' = [base_agent EXCEPT ![id].message_queue = Tail(@)]

\* A session with its worker and one user interface, which sends one
\* message; no send fails and the worker is not stopped.
NextAgent ==
    \/ \E agent \in AgentRequests : create_session_commit(agent)
    \/ \E spawned \in BOOLEAN : create_session_spawn(spawned)
    \/ \E id \in SessionIds : websocket_endpoint_connect(ClientChannel, id)
    \/ websocket_endpoint_disconnect(ClientChannel)
    \/ \E content \in Contents :
           /\ \A n \in DOMAIN chat_messages : chat_messages[n].role # "user"
           /\ BaseAgent_message_receiver_loop(ClientChannel, content)
    \/ \E id \in SessionIds : BaseAgent_connect(id)
    \/ \E id \in SessionIds : BaseAgent_run_welcome(id)
    \/ \E id \in SessionIds : BaseAgent_run(id)
    \/ \E id \in SessionIds : get_messages(id)
    \/ \E failing \in SUBSET SessionIds : list_sessions(failing)

\* The worker and the server take every step they can take; the user
\* interface is free to do nothing.
SpecAgent ==
    /\ Init
    /\ [][NextAgent]_vars
    /\ WF_vars(\E spawned \in BOOLEAN : create_session_spawn(spawned))
    /\ WF_vars(\E id \in SessionIds : BaseAgent_connect(id))
    /\ WF_vars(\E id \in SessionIds : BaseAgent_run_welcome(id))
    /\ WF_vars(\E id \in SessionIds : BaseAgent_run(id))

\* ================================================================ claims
StatusOf(tbl, id) == tbl[id].status

\* A step of list_sessions, or of get_session on row id, that returned 200.
ReadStep(id) ==
    \/ response'.op = "list"
    \/ response'.op = "get" /\ response'.id = id /\ response'.code = 200

\* The edges of the session state machine that any operation may take.
StateMachineEdges ==
    {<<"pending", "running">>,
     <<"running", "unresponsive">>, <<"running", "stopped">>,
     <<"running", "exited">>, <<"running", "failed">>,
     <<"unresponsive", "stopped">>}

\* The edges that only restart_session may take.
RestartEdges ==
    {<<s, "running">> : s \in {"unresponsive", "stopped", "failed", "exited"}}

\* C1: every change of a session's persisted status follows an edge of the
\* state machine: pending -> running; running -> unresponsive, stopped,
\* exited or failed; unresponsive -> stopped; unresponsive, stopped, failed
\* or exited -> running only through restart_session (any state -> deleted
\* removes the row). No operation produces any other status change.
C1_StatusFollowsStateMachine ==
    [][\A id \in SessionIds :
          (/\ id \in DOMAIN agent_sessions
           /\ id \in DOMAIN agent_sessions'
           /\ StatusOf(agent_sessions, id) # StatusOf(agent_sessions', id))
          => LET edge == <<StatusOf(agent_sessions, id),
                           StatusOf(agent_sessions', id)>>
             IN \/ edge \in StateMachineEdges
                \/ /\ edge \in RestartEdges
                   /\ response'.op = "restart"
                   /\ response'.id = id]_vars

\* C2: stop_session is idempotent: called on a session whose status is
\* already stopped or exited it returns success and changes nothing: the row
\* (status and stop timestamp) is as before, no worker is stopped and no
\* status frame is broadcast.
C2_StopIsIdempotent ==
    [][\A id \in SessionIds :
          (/\ id \in DOMAIN agent_sessions
           /\ StatusOf(agent_sessions, id) \in {"stopped", "exited"}
           /\ response'.op = "stop"
           /\ response'.id = id)
          => /\ response'.code = 200
             /\ id \in DOMAIN agent_sessions'
             /\ agent_sessions'[id] = agent_sessions[id]
             /\ workers' = workers
             /\ sent' = << >>]_vars

\* C3: at every instant there is at most one live worker process per session
\* id: a spawn for an id finds every earlier worker of that id reaped.
C3_AtMostOneWorker == \A id \in SessionIds : workers[id] <= 1

\* C4: when stop_session or delete_session has returned success for a
\* session, no worker process of that session id is left running, whatever
\* the status of the session was when the operation was called.
C4_StoppedLeavesNoWorker ==
    (response.op \in {"stop", "delete"} /\ response.code = 200)
        => workers[response.id] = 0

\* C5: the read path never resurrects a stopped session: a session whose
\* status is stopped keeps status stopped across list_sessions and
\* get_session, whatever the process query reports.
C5_ReadKeepsStopped ==
    [][\A id \in SessionIds :
          (/\ id \in DOMAIN agent_sessions
           /\ StatusOf(agent_sessions, id) = "stopped"
           /\ ReadStep(id))
          => /\ id \in DOMAIN agent_sessions'
             /\ StatusOf(agent_sessions', id) = "stopped"]_vars

\* C6: reconciliation is idempotent: in a run of list_sessions and
\* get_session calls with no other step between them (so with the process
\* state and the last heartbeat unchanged), the status of a session changes
\* at most once, hence never back and forth between two values.
C6_ReconciliationIdempotent == \A id \in SessionIds : readWrites[id] <= 1

\* C7: on the read path, a session marked running whose heartbeat is
\* recorded and not stale, and whose process query reports exited, is
\* transitioned to exited.
C7_ListMarksExited ==
    [][\A id \in SessionIds : \A failing \in SUBSET SessionIds :
          (/\ list_sessions(failing)
           /\ id \notin failing
           /\ id \in DOMAIN agent_sessions
           /\ StatusOf(agent_sessions, id) = "running"
           /\ agent_sessions[id].last_heartbeat # {}
           /\ ~Stale(agent_sessions[id], now)
           /\ workers[id] = 0)
          => StatusOf(agent_sessions', id) = "exited"]_vars

\* C8: both read operations apply the staleness rule: list_sessions and
\* get_session each take a session that is marked running with a stale
\* heartbeat to unresponsive, and neither changes the status of a session
\* that is not marked running.
C8_BothReadsApplyStaleness ==
    [][\A id \in SessionIds :
          (id \in DOMAIN agent_sessions /\ ReadStep(id))
          => /\ id \in DOMAIN agent_sessions'
             /\ (StatusOf(agent_sessions, id) = "running"
                    /\ Stale(agent_sessions[id], now))
                => StatusOf(agent_sessions', id) = "unresponsive"
             /\ StatusOf(agent_sessions, id) # "running"
                => StatusOf(agent_sessions', id)
                       = StatusOf(agent_sessions, id)]_vars

\* C9: create_session persists the new row with status pending; no row is
\* persisted with status running while its first spawn has not succeeded.
C9_PendingUntilSpawned ==
    \A id \in creating : StatusOf(agent_sessions, id) = "pending"

\* C10: when spawn_agent fails during create_session or restart_session, the
\* operation returns an error, the persisted status is failed, and no worker
\* process of that session id is left running.
C10_FailedSpawnLeavesFailed ==
    [][\A id \in SessionIds :
          (\/ id \in creating /\ create_session_spawn(FALSE)
           \/ /\ id \in DOMAIN agent_sessions
              /\ \E bad \in SUBSET Channels :
                     restart_session(id, FALSE, FALSE, bad))
          => /\ response'.code = 500
             /\ StatusOf(agent_sessions', id) = "failed"
             /\ workers'[id] = 0]_vars

\* C11: create_session for an agent name that is not in the agents directory
\* answers 404, inserts no row and never reaches spawn_agent: the table, the
\* serial key, the pending spawn and the worker processes are as before.
C11_UnknownAgentRejected ==
    [][\A agent \in AgentRequests \ KnownAgents :
          create_session_commit(agent) =>
              /\ response' = Resp("create", 0, 404)
              /\ agent_sessions' = agent_sessions
              /\ nextId' = nextId
              /\ creating' = {}
              /\ workers' = workers]_vars

C11_Witness == response = Resp("create", 0, 404)

\* C12: a restart_session that answers 200, whatever the status of the row
\* was (stopped, failed, exited, unresponsive or running), leaves the row
\* running with no stop timestamp, has started one more process of the same
\* session id beside those it did not stop, and has sent the status frame
\* running to the connections of the session (those whose send failed are
\* no longer registered).
C12_RestartPostconditions ==
    [][\A id \in SessionIds :
          response' = Resp("restart", id, 200) =>
              /\ Exists(id)
              /\ agent_sessions'[id].status = "running"
              /\ agent_sessions'[id].stopped_at = {}
              /\ workers'[id] =
                     (IF agent_sessions[id].status = "running"
                      THEN 0 ELSE workers[id]) + 1
              /\ sent' = IF id \in DOMAIN active_connections
                         THEN <<[frame |-> StatusFrame("running"),
                                 to |-> Conns(active_connections', id)]>>
                         ELSE << >>]_vars

C12_Witness ==
    /\ response = Resp("restart", 1, 200)
    /\ sent # << >>
    /\ sent[1].to # {}

\* C13: when delete_session answers 200 the row of the session and every
\* message of the session are gone, and from then on they stay gone: the row
\* and the messages do not come back, get_session answers 404, list_sessions
\* does not report the session and get_messages reports no message of it.
C13_DeleteRemovesRowAndMessages ==
    [][\A id \in SessionIds :
          /\ response' = Resp("delete", id, 200) =>
                 /\ id \notin DOMAIN agent_sessions'
                 /\ MessagesOf(chat_messages', id) = << >>
          /\ (id < nextId /\ ~Exists(id)) =>
                 /\ id \notin DOMAIN agent_sessions'
                 /\ MessagesOf(chat_messages', id) = << >>
                 /\ (response'.op = "get" /\ response'.id = id)
                        => response'.code = 404
                 /\ response'.op = "list"
                        => \A k \in DOMAIN response'.body :
                              response'.body[k].id # id
                 /\ (response'.op = "messages" /\ response'.id = id)
                        => response'.body = << >>]_vars

\* A delete_session that answered 200 for a session that had messages.
C13_Witness ==
    /\ response = Resp("delete", 1, 200)
    /\ nextMessageId > 1
    /\ chat_messages = << >>

\* C14: a delete_session that answers 200 has sent the status frame deleted
\* to the connections of the session, and afterwards the registry holds no
\* entry for the session id.
C14_DeleteEvictsConnections ==
    [][\A id \in SessionIds :
          response' = Resp("delete", id, 200) =>
              /\ id \in DOMAIN active_connections =>
                     /\ Len(sent') = 1
                     /\ sent'[1].frame = StatusFrame("deleted")
              /\ id \notin DOMAIN active_connections']_vars

\* C15: stop_session on an existing session always answers 200 and leaves
\* the row stopped with a stop timestamp, also when stop_agent could not end
\* the worker.
C15_StopAlwaysReachesStopped ==
    [][\A id \in SessionIds :
          (Exists(id) /\ response'.op = "stop" /\ response'.id = id) =>
              /\ response'.code = 200
              /\ agent_sessions'[id].status = "stopped"
              /\ agent_sessions'[id].stopped_at # {}]_vars

\* C16: a stop_session asked of a session from whose status stopped cannot
\* be reached (failed; pending) answers with an error and leaves the row as
\* it was.
C16_InvalidTransitionRefused ==
    [][\A id \in SessionIds :
          (/\ Exists(id)
           /\ agent_sessions[id].status \in {"failed", "pending"}
           /\ <<agent_sessions[id].status, "stopped">> \notin StateMachineEdges
           /\ response'.op = "stop"
           /\ response'.id = id) =>
              /\ response'.code # 200
              /\ agent_sessions' = agent_sessions]_vars

\* C17: get_session, stop_session, restart_session, delete_session and
\* get_messages for an id that has no row answer 404 and change neither the
\* tables, the worker processes nor the registry.
C17_UnknownIdIsNotFound ==
    [][\A id \in SessionIds :
          (/\ ~Exists(id)
           /\ response'.op \in {"get", "stop", "restart", "delete", "messages"}
           /\ response'.id = id) =>
              /\ response'.code = 404
              /\ UNCHANGED <<agent_sessions, chat_messages, workers,
                             active_connections>>]_vars

\* C18: a sweep of the monitor in which nothing raises sets every running
\* session whose last heartbeat is more than 45 seconds old to unresponsive
\* and sends the status frame unresponsive to its connections, and leaves
\* every running session whose last heartbeat is 45 seconds old or less
\* running.
C18_SweepMarksStaleSessions ==
    [][response' = Resp("sweep", 0, 0) =>
          \A id \in DOMAIN agent_sessions :
             \A hb \in agent_sessions[id].last_heartbeat :
                agent_sessions[id].status = "running" =>
                   IF now - hb > 45
                   THEN /\ agent_sessions'[id].status = "unresponsive"
                        /\ id \in DOMAIN active_connections =>
                               \E k \in DOMAIN sent' :
                                  /\ sent'[k].frame = StatusFrame("unresponsive")
                                  /\ sent'[k].to = Conns(active_connections', id)
                   ELSE agent_sessions'[id].status = "running"]_vars

\* A sweep that has marked a session whose connections received the frame,
\* and left alone a running session whose heartbeat is 45 seconds old or less.
C18_Witness ==
    /\ response = Resp("sweep", 0, 0)
    /\ \E k \in DOMAIN sent : sent[k].to # {}
    /\ \E id \in DOMAIN agent_sessions :
           /\ agent_sessions[id].status = "running"
           /\ \E hb \in agent_sessions[id].last_heartbeat : now - hb <= 45

\* C19: a session for which no heartbeat has been recorded is never made
\* unresponsive, by the sweep of the monitor, by list_sessions or by any
\* other step, however much time has passed.
C19_NoHeartbeatNeverUnresponsive ==
    [][\A id \in DOMAIN agent_sessions \cap DOMAIN agent_sessions' :
          (/\ agent_sessions[id].last_heartbeat = {}
           /\ agent_sessions[id].status # "unresponsive")
          => agent_sessions'[id].status # "unresponsive"]_vars

\* A sweep or a list_sessions past the timeout that has left a running
\* session without heartbeat running.
C19_Witness ==
    /\ response.op \in {"sweep", "list"}
    /\ now > HeartbeatTimeout
    /\ \E id \in DOMAIN agent_sessions :
           /\ agent_sessions[id].status = "running"
           /\ agent_sessions[id].last_heartbeat = {}

\* C20: an error raised while the monitor processes one session does not
\* keep the other sessions of the same sweep from being checked: every
\* other running session whose heartbeat is stale is made unresponsive by
\* that sweep (and the monitor goes on to its next sweep).
C20_SweepErrorIsIsolated ==
    [][\A failed \in SweepIds :
          response' = Resp("sweep", failed, 500) =>
              \A id \in DOMAIN agent_sessions \ {failed} :
                 (/\ agent_sessions[id].status = "running"
                  /\ \E hb \in agent_sessions[id].last_heartbeat :
                        now - hb > 45)
                 => agent_sessions'[id].status = "unresponsive"]_vars

\* C21: the registry never maps a session id to an empty set of connections:
\* after any sequence of connects, disconnects and broadcasts, those with
\* failing sends included, every id in the registry has a connection.
C21_NoEmptyEntry ==
    \A id \in DOMAIN active_connections : active_connections[id] # {}

\* A broadcast whose sends all failed has emptied the registry.
C21_Witness ==
    /\ response.op = "stop"
    /\ Len(sent) = 1
    /\ sent[1].to = {}
    /\ active_connections = << >>

\* C22: a broadcast sends the frame to every connection registered for the
\* session, detaches the connections whose send raised when send_message
\* ends, and ends without error.
C22_BroadcastIsolatesFailures ==
    [][\A ws \in DOMAIN inflight :
          LET t == inflight[ws]
          IN (ws \notin DOMAIN inflight' \/ inflight'[ws].todo # t.todo) =>
                /\ response' # Resp("broadcast", t.id, 500)
                /\ t.start \subseteq t.visited
                /\ \A c \in t.failed :
                      c \notin Conns(active_connections', t.id)]_vars

\* C23: a connect or disconnect on the same session while a broadcast is
\* suspended in a send does not disturb it: when send_message ends, every
\* connection that was registered when it began and still is has been sent
\* the frame, once and with success, and send_message has not raised.
C23_BroadcastUndisturbedByMembership ==
    [][\A ws \in DOMAIN inflight :
          LET t == inflight[ws]
          IN (ws \notin DOMAIN inflight' \/ inflight'[ws].todo # t.todo) =>
                /\ response'.code # 500
                /\ \A c \in t.start \cap Conns(active_connections', t.id) :
                      c \in t.visited \ t.failed]_vars

\* The number of frames of sequence log that went to connection c.
FramesTo(log, c) == Cardinality({k \in DOMAIN log : c \in log[k].to})

C25_SaveFramePersists ==
    [][\A ws \in Channels, c \in Contents :
          (/\ websocket_endpoint_agent_message_save(ws, c)
           /\ Exists(handlers[ws])
           /\ Len(chat_messages) < MaxMessages)
          => /\ chat_messages' = Append(chat_messages,
                    ChatMessage(nextMessageId, handlers[ws], "agent", c, now))
             /\ sent' = << >>]_vars

\* The frame delivered by one broadcast of frame to the connections of the
\* session the handler of ws serves.
Broadcast(ws, frame) ==
    LET id == handlers[ws]
    IN IF id \in DOMAIN active_connections
       THEN sent' = <<[frame |-> frame,
                       to |-> Conns(active_connections', id)]>>
       ELSE sent' = << >>

\* C26: frames of type agent_message_stream, agent_log, typing and heartbeat
\* leave the chat_messages table as it is, and each is sent on to the
\* connections of the session, as a frame of type message_stream, log,
\* typing and heartbeat (the heartbeat of a session whose row exists).
C26_ForwardedFramesNotSaved ==
    [][\A ws \in DOMAIN handlers :
        \A bad \in SUBSET Conns(active_connections, handlers[ws]) :
          /\ \A c \in Contents :
                websocket_endpoint_agent_message_stream(ws, c, bad) =>
                   /\ chat_messages' = chat_messages
                   /\ Broadcast(ws, [type |-> "message_stream", status |-> "",
                                     role |-> "agent", content |-> c,
                                     timestamp |-> {now}, is_typing |-> {}])
          /\ \A c \in Contents :
                websocket_endpoint_agent_log(ws, c, bad) =>
                   /\ chat_messages' = chat_messages
                   /\ Broadcast(ws, [type |-> "log", status |-> "",
                                     role |-> "log", content |-> c,
                                     timestamp |-> {now}, is_typing |-> {}])
          /\ \A b \in BOOLEAN :
                websocket_endpoint_typing(ws, b, bad) =>
                   /\ chat_messages' = chat_messages
                   /\ Broadcast(ws, [type |-> "typing", status |-> "",
                                     role |-> "", content |-> "",
                                     timestamp |-> {}, is_typing |-> {b}])
          /\ websocket_endpoint_heartbeat(ws, bad) =>
                /\ chat_messages' = chat_messages
                /\ Exists(handlers[ws]) =>
                      Broadcast(ws, [type |-> "heartbeat", status |-> "",
                                     role |-> "", content |-> "",
                                     timestamp |-> {now}, is_typing |-> {}])]_vars

\* A partial update that reached a connection while a message is saved.
C26_Witness ==
    /\ Len(sent) = 1
    /\ sent[1].frame.type = "message_stream"
    /\ sent[1].to # {}
    /\ chat_messages # << >>

\* C27: a frame of type heartbeat sets last_heartbeat of the session to the
\* time at which it is handled and changes no other field of the row, the
\* status in particular; and no step moves last_heartbeat of a session to an
\* earlier time or clears it.
C27_HeartbeatOnlyRefreshes ==
    [][/\ \A ws \in DOMAIN handlers :
            \A bad \in SUBSET Conns(active_connections, handlers[ws]) :
               (websocket_endpoint_heartbeat(ws, bad) /\ Exists(handlers[ws]))
               => agent_sessions' =
                     [agent_sessions EXCEPT
                         ![handlers[ws]].last_heartbeat = {now}]
       /\ \A id \in DOMAIN agent_sessions \cap DOMAIN agent_sessions' :
            \A a \in agent_sessions[id].last_heartbeat :
               \E b \in agent_sessions'[id].last_heartbeat : a <= b]_vars

\* A heartbeat, later than the one before it, of a session that the monitor
\* has marked unresponsive.
C27_Witness ==
    /\ Len(sent) = 1
    /\ sent[1].frame.type = "heartbeat"
    /\ now > HeartbeatTimeout
    /\ \E id \in DOMAIN agent_sessions :
           /\ agent_sessions[id].last_heartbeat = {now}
           /\ agent_sessions[id].status = "unresponsive"

\* C28: every frame of type message that a connection has been sent belongs
\* to a message that was saved, with the same role, content and timestamp,
\* before the frame was sent.
C28_MessageFramesAreSaved ==
    \A c \in Channels :
       \A k \in DOMAIN received[c] :
          received[c][k].type = "message" =>
             \E n \in DOMAIN chat_messages :
                /\ chat_messages[n].role = received[c][k].role
                /\ chat_messages[n].content = received[c][k].content
                /\ {chat_messages[n].timestamp} = received[c][k].timestamp

\* A connection has the display frame of a message while the broadcast of
\* another handler is still suspended.
C28_Witness ==
    /\ \E c \in Channels : \E k \in DOMAIN received[c] :
           received[c][k].type = "message"
    /\ inflight # << >>

\* C29: a saved message is not dropped from the live view: when the handler
\* of a user_message or agent_message frame is through with its broadcasts,
\* every connection that was attached to the session when the broadcast
\* began, is still attached and whose send did not fail has been sent the
\* frame of type message, also when other connections attach, detach or
\* fail meanwhile.
C29_SavedMessageReachesObservers ==
    [][\A ws \in DOMAIN inflight :
          ws \notin DOMAIN inflight' =>
             LET t == inflight[ws]
                 M == t.todo[Len(t.todo)]
             IN \A c \in (t.start \cap Conns(active_connections', t.id))
                              \ t.failed :
                   \E k \in DOMAIN received'[c] : received'[c][k] = M]_vars

\* The frames of type message in a log, in the order of the log.
MessageFramesOf(log) == SelectSeq(log, LAMBDA f : f.type = "message")

\* The display frames of the saved messages, in the order they were saved.
SavedFrames ==
    [n \in DOMAIN chat_messages |->
        MessageFrame(chat_messages[n].role, chat_messages[n].content,
                     chat_messages[n].timestamp)]

\* a can be had from b by leaving elements out.
IsSubSeq(a, b) ==
    \E f \in [DOMAIN a -> DOMAIN b] :
       /\ \A i, j \in DOMAIN a : i < j => f[i] < f[j]
       /\ \A i \in DOMAIN a : a[i] = b[f[i]]

\* C30: every connection of a session is sent the frames of type message in
\* the order in which their messages were saved, also when the inbound
\* frames arrive concurrently on different connections.
C30_FramesInSavedOrder ==
    \A c \in Channels : IsSubSeq(MessageFramesOf(received[c]), SavedFrames)

\* C31: a malformed inbound frame (not JSON, not a JSON object, or of an
\* unknown or missing type) changes neither table and is not fatal to the
\* connection: the handler goes on and the connection stays registered.
C31_MalformedFrameIsDropped ==
    [][\A ws \in Channels, kind \in MalformedKinds :
          (/\ websocket_endpoint_malformed(ws, kind)
           /\ ws \in Conns(active_connections, handlers[ws]))
          => /\ UNCHANGED <<agent_sessions, chat_messages>>
             /\ ws \in DOMAIN handlers'
             /\ ws \in Conns(active_connections', handlers[ws])]_vars

\* a is a prefix of b.
IsPrefix(a, b) ==
    /\ Len(a) <= Len(b)
    /\ \A i \in DOMAIN a : a[i] = b[i]

\* C32: the transcript of a session is append-only: what get_messages
\* returns has everything it returned before as a prefix (here for two
\* reads that follow each other), so that messages are never reordered and
\* new ones appear only at the end.
C32_TranscriptIsAppendOnly ==
    [][\A id \in SessionIds :
          (/\ response.op = "messages" /\ response.id = id
           /\ response'.op = "messages" /\ response'.id = id)
          => IsPrefix(response.body, response'.body)]_vars

\* The table holds a message of session id with this role and content.
HasMessage(id, role, content) ==
    \E n \in DOMAIN chat_messages :
       /\ chat_messages[n].session_id = id
       /\ chat_messages[n].role = role
       /\ chat_messages[n].content = content

\* C33: when a user_message has been taken on a session that create_session
\* reported running and whose worker keeps running, the answer of the worker
\* to it is eventually saved with role agent, also when the frame arrived
\* before the worker had connected.
C33_UserMessageIsAnswered ==
    \A id \in SessionIds : \A content \in Contents :
       (/\ HasMessage(id, "user", content)
        /\ workers[id] >= 1
        /\ Exists(id) /\ agent_sessions[id].status = "running")
       ~> HasMessage(id, "agent", process_message(content))

\* C34: the monitor writes unresponsive only over the status running: a
\* session of its query that was stopped (or deleted) while the pass was
\* suspended in the broadcast for another session keeps its status.
C34_SweepMarksOnlyRunning ==
    [][\A id \in SweepIds :
          (/\ id \in DOMAIN agent_sessions
           /\ id \in DOMAIN agent_sessions'
           /\ StatusOf(agent_sessions, id) # "unresponsive"
           /\ StatusOf(agent_sessions', id) = "unresponsive")
          => StatusOf(agent_sessions, id) = "running"]_vars

\* C35: a session has at most one log relay task at any time, also after
\* restart_session, and none once stop_session or delete_session has
\* returned success for it.
C35_OneLogTaskPerSession ==
    [][\A id \in SweepIds :
          /\ log_tasks'[id] <= 1
          /\ (/\ response'.op \in {"stop", "delete"}
              /\ response'.id = id
              /\ response'.code = 200) => log_tasks'[id] = 0]_vars

\* C36: sessions do not block each other: while the log relay task of one
\* session waits for the next line of its log, the event loop can run a
\* request or a websocket of another session.
C36_SessionsDoNotBlock ==
    \A a, b \in SweepIds :
       (a # b /\ readline = {a}) => ENABLED Served(b)

\* C37: after restart_session has set a session to running, neither the
\* monitor nor list_sessions marks it unresponsive on the strength of a
\* heartbeat from before the restart: in the step that follows a successful
\* restart, before any frame of the new worker has been taken, the session
\* does not become unresponsive.
C37_RestartForgetsOldHeartbeat ==
    [][\A id \in SessionIds :
          (/\ response = Resp("restart", id, 200)
           /\ id \in DOMAIN agent_sessions
           /\ id \in DOMAIN agent_sessions')
          => StatusOf(agent_sessions', id) # "unresponsive"]_vars

\* C38: every saved message belongs to a session whose row exists: a
\* user_message or agent_message frame on a connection that is still
\* attached after its session was deleted saves no message, and no frame on
\* such a connection brings the row back.
C38_MessagesBelongToSessions ==
    [][/\ \A n \in DOMAIN chat_messages' :
             chat_messages'[n].session_id \in DOMAIN agent_sessions'
       /\ \A ws \in DOMAIN handlers :
             ~Exists(handlers[ws])
                => handlers[ws] \notin DOMAIN agent_sessions']_vars

\* Messages were saved, their session was deleted with them, and a
\* connection of the session is still attached.
C38_Witness ==
    /\ nextMessageId > 1
    /\ chat_messages = << >>
    /\ \E ws \in DOMAIN handlers : ~Exists(handlers[ws])

\* C39: while the broadcast a handler started is in flight, nothing that
\* happens to the other connections (a failed send to one of them, a connect
\* or a disconnect of one of them) ends the handler or takes the sending
\* connection out of active_connections, as long as the send to the sending
\* connection itself has not failed.
C39_HandlerEndsOnOwnChannelOnly ==
    [][\A ws \in DOMAIN inflight :
          ws \notin inflight[ws].failed
             => /\ ws \in DOMAIN handlers'
                /\ ws \in Conns(active_connections', inflight[ws].id)]_vars

====
